---- MODULE Spec2Model ----
(***************************************************************************)
(* Model of kernel/src/client/expression.rs: the default expression        *)
(* handler, which evaluates an Expression tree over a RecordBatch by       *)
(* dispatching every operator node to an arrow compute kernel.             *)
(*                                                                         *)
(* Arrays are modelled the way arrow stores them: a data type, a values    *)
(* buffer and a validity bitmap (valid[i] = FALSE is a null slot, whose    *)
(* value is kept at 0).  Boolean values are the bits 0 and 1.  The values  *)
(* of the non-integer scalar variants are small integer tokens.            *)
(***************************************************************************)
EXTENDS Integers, Sequences, FiniteSets, TLC

(* ---------------------------------------------------------------- bounds *)

\* Largest value of the integer width of the model (i32::MAX, scaled down).
IntMax == 7

\* Largest row count of a batch.
MaxRows == 2

\* Largest number of calls made against one batch.
MaxCalls == 2

IntMin == -IntMax - 1

(* ------------------------------------------------------------ data model *)

NoArray == [data_type |-> "None", values |-> <<>>, valid |-> <<>>,
            precision |-> 0, scale |-> 0]

NoError == [kind |-> "None", detail |-> ""]

\* A primitive arrow array of one data type, all slots valid.
PrimitiveArray(data_type, values) ==
    [data_type |-> data_type, values |-> values,
     valid |-> [i \in 1..Len(values) |-> TRUE], precision |-> 0, scale |-> 0]

\* Array::len
ArrayLen(arr) == Len(arr.values)

\* vec![val; num_rows]
Repeat(val, num_rows) == [i \in 1..num_rows |-> val]

\* The variants of Scalar.
MkScalar(variant, val, precision, scale) ==
    [variant |-> variant, val |-> val, precision |-> precision, scale |-> scale]

\* arrow's limits on a Decimal128 type.
DECIMAL128_MAX_PRECISION == 38
DECIMAL128_MAX_SCALE == 38

\* Decimal128Array::with_precision_and_scale succeeds exactly on these.
ValidDecimalType(precision, scale) ==
    /\ precision >= 1
    /\ precision <= DECIMAL128_MAX_PRECISION
    /\ scale <= DECIMAL128_MAX_SCALE
    /\ (scale > 0 => scale <= precision)

\* The arrow data type each supported Scalar variant is broadcast to.
ArrayTypeOf(variant) ==
    CASE variant = "Integer" -> "Int32"
      [] variant = "Float" -> "Float32"
      [] variant = "String" -> "Utf8"
      [] variant = "Boolean" -> "Boolean"
      [] variant = "Timestamp" -> "TimestampMicrosecond"
      [] variant = "Date" -> "Date32"
      [] variant = "Binary" -> "Binary"
      [] variant = "Decimal" -> "Decimal128"
      [] OTHER -> "None"

\* A to_array that broadcasts to one row too many.
to_array_OffByOne(scalar, num_rows) ==
    IF scalar.variant = "Null" \/
       (scalar.variant = "Decimal" /\ ~ValidDecimalType(scalar.precision, scalar.scale))
    THEN [panic |-> TRUE, arr |-> NoArray]
    ELSE [panic |-> FALSE,
          arr |-> [PrimitiveArray(ArrayTypeOf(scalar.variant),
                                  Repeat(scalar.val, num_rows + 1))
                   EXCEPT !.precision = scalar.precision, !.scale = scalar.scale]]

\* Scalar::to_array.  Null is todo!() and an invalid decimal type fails the
\* unwrap(): both panic instead of returning.
to_array(scalar, num_rows) ==
    IF scalar.variant = "Null"
    THEN [panic |-> TRUE, arr |-> NoArray]
    ELSE IF scalar.variant = "Decimal"
    THEN IF ValidDecimalType(scalar.precision, scalar.scale)
         THEN [panic |-> FALSE,
               arr |-> [PrimitiveArray("Decimal128", Repeat(scalar.val, num_rows))
                        EXCEPT !.precision = scalar.precision,
                               !.scale = scalar.scale]]
         ELSE [panic |-> TRUE, arr |-> NoArray]
    ELSE [panic |-> FALSE,
          arr |-> PrimitiveArray(ArrayTypeOf(scalar.variant),
                                 Repeat(scalar.val, num_rows))]

(* ------------------------------------------------- arrow compute kernels *)
\* The kernels are external.  They are modelled over the operand types the
\* expressions of this model produce, Int32 and Boolean.

KernelOk(arr) == [ok |-> TRUE, arr |-> arr, cause |-> ""]
KernelErr(cause) == [ok |-> FALSE, arr |-> NoArray, cause |-> cause]

Abs(x) == IF x < 0 THEN -x ELSE x

\* Integer division as Rust's / : the quotient is truncated towards zero.
TruncDiv(x, y) ==
    IF (x < 0) = (y < 0) THEN Abs(x) \div Abs(y) ELSE -(Abs(x) \div Abs(y))

\* The mathematical value of one row of an arithmetic kernel.
ArithValue(op, x, y) ==
    CASE op = "add" -> x + y
      [] op = "sub" -> x - y
      [] op = "mul" -> x * y
      [] op = "div" -> IF y = 0 THEN 0 ELSE TruncDiv(x, y)

\* The failure of one row of a checked arithmetic kernel, "" when it has none.
ArithRowError(op, x, y) ==
    IF op = "div" /\ y = 0 THEN "DivideByZero"
    ELSE IF ArithValue(op, x, y) < IntMin \/ ArithValue(op, x, y) > IntMax
    THEN "ArithmeticOverflow"
    ELSE ""

\* Both slots valid: the union of the operands' null buffers.
BothValid(l, r, i) == l.valid[i] /\ r.valid[i]

\* arrow_arith::numeric::{add, sub, mul, div}: checked, elementwise over the
\* valid rows; the first failing row fails the whole call.
numeric_op(op, l, r) ==
    IF l.data_type # "Int32" \/ r.data_type # "Int32"
    THEN KernelErr("InvalidArgumentError")
    ELSE IF ArrayLen(l) # ArrayLen(r)
    THEN KernelErr("InvalidArgumentError")
    ELSE LET n == ArrayLen(l)
             bad == {i \in 1..n : BothValid(l, r, i)
                        /\ ArithRowError(op, l.values[i], r.values[i]) # ""}
         IN IF bad # {}
            THEN LET first == CHOOSE i \in bad : \A j \in bad : i <= j
                 IN KernelErr(ArithRowError(op, l.values[first], r.values[first]))
            ELSE KernelOk([data_type |-> "Int32",
                           values |-> [i \in 1..n |->
                               IF BothValid(l, r, i)
                               THEN ArithValue(op, l.values[i], r.values[i])
                               ELSE 0],
                           valid |-> [i \in 1..n |-> BothValid(l, r, i)],
                           precision |-> 0, scale |-> 0])

add(l, r) == numeric_op("add", l, r)
sub(l, r) == numeric_op("sub", l, r)
mul(l, r) == numeric_op("mul", l, r)
div(l, r) == numeric_op("div", l, r)

\* The relation of one row of a comparison kernel.
CmpValue(op, x, y) ==
    CASE op = "lt" -> x < y
      [] op = "lt_eq" -> x <= y
      [] op = "gt" -> x > y
      [] op = "gt_eq" -> x >= y
      [] op = "eq" -> x = y
      [] op = "neq" -> x # y

Bit(b) == IF b THEN 1 ELSE 0

\* arrow_ord::cmp::{lt, lt_eq, gt, gt_eq, eq, neq}: a BooleanArray, null where
\* either operand is null.
compare_op(op, l, r) ==
    IF l.data_type # r.data_type
    THEN KernelErr("InvalidArgumentError")
    ELSE IF ArrayLen(l) # ArrayLen(r)
    THEN KernelErr("InvalidArgumentError")
    ELSE LET n == ArrayLen(l)
         IN KernelOk([data_type |-> "Boolean",
                      values |-> [i \in 1..n |->
                          IF BothValid(l, r, i)
                          THEN Bit(CmpValue(op, l.values[i], r.values[i]))
                          ELSE 0],
                      valid |-> [i \in 1..n |-> BothValid(l, r, i)],
                      precision |-> 0, scale |-> 0])

lt(l, r) == compare_op("lt", l, r)
lt_eq(l, r) == compare_op("lt_eq", l, r)
gt(l, r) == compare_op("gt", l, r)
gt_eq(l, r) == compare_op("gt_eq", l, r)
eq(l, r) == compare_op("eq", l, r)
neq(l, r) == compare_op("neq", l, r)

\* arrow_arith::boolean::{and, or} on two BooleanArrays: null where either
\* operand is null (the non-Kleene kernels).
boolean_op(op, l, r) ==
    IF ArrayLen(l) # ArrayLen(r)
    THEN KernelErr("ComputeError")
    ELSE LET n == ArrayLen(l)
         IN KernelOk([data_type |-> "Boolean",
                      values |-> [i \in 1..n |->
                          IF BothValid(l, r, i)
                          THEN IF op = "and"
                               THEN Bit(l.values[i] = 1 /\ r.values[i] = 1)
                               ELSE Bit(l.values[i] = 1 \/ r.values[i] = 1)
                          ELSE 0],
                      valid |-> [i \in 1..n |-> BothValid(l, r, i)],
                      precision |-> 0, scale |-> 0])

and(l, r) == boolean_op("and", l, r)
or(l, r) == boolean_op("or", l, r)

\* as_any().downcast_ref::<BooleanArray>() is Some
IsBooleanArray(arr) == arr.data_type = "Boolean"

(* ------------------------------------------------------------ expressions *)

Literal(scalar) == [kind |-> "Literal", scalar |-> scalar]
Column(name) == [kind |-> "Column", name |-> name]
BinaryOperator(op, left, right) ==
    [kind |-> "BinaryOperator", op |-> op, left |-> left, right |-> right]
BinaryComparison(op, left, right) ==
    [kind |-> "BinaryComparison", op |-> op, left |-> left, right |-> right]
And(left, right) == [kind |-> "And", left |-> left, right |-> right]
Or(left, right) == [kind |-> "Or", left |-> left, right |-> right]

BinaryOperators == {"Plus", "Minus", "Multiply", "Divide"}
ComparisonOperators == {"LessThan", "LessThanOrEqual", "GreaterThan",
                        "GreaterThanOrEqual", "Equal", "NotEqual"}

IsComposite(e) == e.kind \in {"BinaryOperator", "BinaryComparison", "And", "Or"}

(* ------------------------------------------------------------- evaluation *)
\* The outcome of one evaluate_expression call: Ok(array), Err(error) or a
\* panic that unwinds through the caller.  trace records, in program order,
\* what the call did; node is the position of a node in the tree, the path
\* of 0 (left) and 1 (right) from the root.

Event(ev, node, what, detail, len) ==
    [ev |-> ev, node |-> node, what |-> what, detail |-> detail, len |-> len]

\* evaluate_expression is entered for the node
EnterEv(node) == Event("eval", node, "", "", -1)
\* the node returns Ok(arr)
RetEv(node, arr) == Event("ret", node, arr.data_type, "", ArrayLen(arr))
\* the node produces the error err
ErrEv(node, err) == Event("err", node, err.kind, err.detail, -1)
\* the node panics
PanicEv(node) == Event("panic", node, "", "", -1)
\* the node calls the kernel fn
KernelEv(node, fn) == Event("kernel", node, fn, "", -1)
\* the node downcasts one operand's result to a BooleanArray
CheckEv(node, side) == Event("check", node, side, "", -1)

OkResult(arr, trace) ==
    [status |-> "Ok", arr |-> arr, err |-> NoError, trace |-> trace]
ErrResult(err, trace) ==
    [status |-> "Err", arr |-> NoArray, err |-> err, trace |-> trace]
PanicResult(trace) ==
    [status |-> "Panic", arr |-> NoArray, err |-> NoError, trace |-> trace]

MissingColumn(name) == [kind |-> "MissingColumn", detail |-> name]
Generic(msg) == [kind |-> "Generic", detail |-> msg]
GenericError(source) == [kind |-> "GenericError", detail |-> source]

\* The ? operator on a failed operand: its outcome leaves the node unchanged,
\* after what the node had done before.
Propagate(res, before) == [res EXCEPT !.trace = before \o res.trace]

\* .map_err(|err| Error::GenericError { source: Box::new(err) }) and the
\* return of the node.
KernelOutcome(node, fn, k, before) ==
    IF k.ok
    THEN OkResult(k.arr, before \o <<KernelEv(node, fn), RetEv(node, k.arr)>>)
    ELSE ErrResult(GenericError(k.cause),
                   before \o <<KernelEv(node, fn),
                               ErrEv(node, GenericError(k.cause))>>)

\* RecordBatch::column_by_name
column_by_name(batch, name) ==
    IF name \in DOMAIN batch.columns THEN batch.columns[name] ELSE NoArray

\* Expression::Literal arm
LiteralArm(scalar, batch, node) ==
    LET a == to_array(scalar, batch.num_rows)
    IN IF a.panic
       THEN PanicResult(<<EnterEv(node), PanicEv(node)>>)
       ELSE OkResult(a.arr, <<EnterEv(node), RetEv(node, a.arr)>>)

\* A Column arm whose error does not carry the name that was looked up.
ColumnArm_WrongName(name, batch, node) ==
    IF name \in DOMAIN batch.columns
    THEN OkResult(batch.columns[name],
                  <<EnterEv(node), RetEv(node, batch.columns[name])>>)
    ELSE ErrResult(MissingColumn(""),
                   <<EnterEv(node), ErrEv(node, MissingColumn(""))>>)

\* Expression::Column arm
ColumnArm(name, batch, node) ==
    IF name \in DOMAIN batch.columns
    THEN OkResult(column_by_name(batch, name),
                  <<EnterEv(node), RetEv(node, column_by_name(batch, name))>>)
    ELSE ErrResult(MissingColumn(name),
                   <<EnterEv(node), ErrEv(node, MissingColumn(name))>>)

KernelName(op) ==
    CASE op = "Plus" -> "add"
      [] op = "Minus" -> "sub"
      [] op = "Multiply" -> "mul"
      [] op = "Divide" -> "div"
      [] op = "LessThan" -> "lt"
      [] op = "LessThanOrEqual" -> "lt_eq"
      [] op = "GreaterThan" -> "gt"
      [] op = "GreaterThanOrEqual" -> "gt_eq"
      [] op = "Equal" -> "eq"
      [] op = "NotEqual" -> "neq"

\* A dispatch that sends Minus to add and Divide to mul.
BinaryOperatorDispatch_Swapped(op, left_arr, right_arr) ==
    CASE op = "Plus" -> add(left_arr, right_arr)
      [] op = "Minus" -> add(left_arr, right_arr)
      [] op = "Multiply" -> mul(left_arr, right_arr)
      [] op = "Divide" -> mul(left_arr, right_arr)

\* match op of the BinaryOperator arm
BinaryOperatorDispatch(op, left_arr, right_arr) ==
    CASE op = "Plus" -> add(left_arr, right_arr)
      [] op = "Minus" -> sub(left_arr, right_arr)
      [] op = "Multiply" -> mul(left_arr, right_arr)
      [] op = "Divide" -> div(left_arr, right_arr)

\* A dispatch that sends Equal to lt_eq.
BinaryComparisonDispatch_EqAsLtEq(op, left_arr, right_arr) ==
    CASE op = "LessThan" -> lt(left_arr, right_arr)
      [] op = "LessThanOrEqual" -> lt_eq(left_arr, right_arr)
      [] op = "GreaterThan" -> gt(left_arr, right_arr)
      [] op = "GreaterThanOrEqual" -> gt_eq(left_arr, right_arr)
      [] op = "Equal" -> lt_eq(left_arr, right_arr)
      [] op = "NotEqual" -> neq(left_arr, right_arr)

\* match op of the BinaryComparison arm
BinaryComparisonDispatch(op, left_arr, right_arr) ==
    CASE op = "LessThan" -> lt(left_arr, right_arr)
      [] op = "LessThanOrEqual" -> lt_eq(left_arr, right_arr)
      [] op = "GreaterThan" -> gt(left_arr, right_arr)
      [] op = "GreaterThanOrEqual" -> gt_eq(left_arr, right_arr)
      [] op = "Equal" -> eq(left_arr, right_arr)
      [] op = "NotEqual" -> neq(left_arr, right_arr)

\* A BinaryOperator arm without the ? on the left operand: the right operand
\* is evaluated after the left one has failed.
BinaryOperatorArm_NoFailFast(op, L, R, node) ==
    IF L.status # "Ok"
    THEN [L EXCEPT !.trace = <<EnterEv(node)>> \o L.trace \o R.trace]
    ELSE IF R.status # "Ok"
    THEN Propagate(R, <<EnterEv(node)>> \o L.trace)
    ELSE KernelOutcome(node, KernelName(op),
                       BinaryOperatorDispatch(op, L.arr, R.arr),
                       <<EnterEv(node)>> \o L.trace \o R.trace)

\* Expression::BinaryOperator arm; L and R are the outcomes of evaluating
\* the operands, R being used only where the code reaches it.
BinaryOperatorArm(op, L, R, node) ==
    IF L.status # "Ok"
    THEN Propagate(L, <<EnterEv(node)>>)
    ELSE IF R.status # "Ok"
    THEN Propagate(R, <<EnterEv(node)>> \o L.trace)
    ELSE KernelOutcome(node, KernelName(op),
                       BinaryOperatorDispatch(op, L.arr, R.arr),
                       <<EnterEv(node)>> \o L.trace \o R.trace)

\* Expression::BinaryComparison arm
BinaryComparisonArm(op, L, R, node) ==
    IF L.status # "Ok"
    THEN Propagate(L, <<EnterEv(node)>>)
    ELSE IF R.status # "Ok"
    THEN Propagate(R, <<EnterEv(node)>> \o L.trace)
    ELSE KernelOutcome(node, KernelName(op),
                       BinaryComparisonDispatch(op, L.arr, R.arr),
                       <<EnterEv(node)>> \o L.trace \o R.trace)

ExpectedBoolean == Generic("expected boolean array")

\* A boolean arm that checks neither operand before the kernel.
BooleanArm_Unchecked(fn, L, R, node) ==
    IF L.status # "Ok"
    THEN Propagate(L, <<EnterEv(node)>>)
    ELSE IF R.status # "Ok"
    THEN Propagate(R, <<EnterEv(node)>> \o L.trace)
    ELSE KernelOutcome(node, fn, boolean_op(fn, L.arr, R.arr),
                       <<EnterEv(node)>> \o L.trace \o R.trace)

\* A boolean arm that evaluates both operands before it checks either.
BooleanArm_CheckLate(fn, L, R, node) ==
    IF L.status # "Ok"
    THEN Propagate(L, <<EnterEv(node)>>)
    ELSE IF R.status # "Ok"
    THEN Propagate(R, <<EnterEv(node)>> \o L.trace)
    ELSE IF ~IsBooleanArray(L.arr)
    THEN ErrResult(ExpectedBoolean,
                   <<EnterEv(node)>> \o L.trace \o R.trace
                       \o <<CheckEv(node, "left"), ErrEv(node, ExpectedBoolean)>>)
    ELSE IF ~IsBooleanArray(R.arr)
    THEN ErrResult(ExpectedBoolean,
                   <<EnterEv(node)>> \o L.trace \o R.trace
                       \o <<CheckEv(node, "left"), CheckEv(node, "right"),
                            ErrEv(node, ExpectedBoolean)>>)
    ELSE KernelOutcome(node, fn, boolean_op(fn, L.arr, R.arr),
                       <<EnterEv(node)>> \o L.trace \o R.trace
                           \o <<CheckEv(node, "left"), CheckEv(node, "right")>>)

\* Expression::And and Expression::Or arms, which differ in the kernel fn
\* alone: the left operand is evaluated and downcast, then the right operand
\* is evaluated and downcast, then the kernel runs.
BooleanArm(fn, L, R, node) ==
    IF L.status # "Ok"
    THEN Propagate(L, <<EnterEv(node)>>)
    ELSE IF ~IsBooleanArray(L.arr)
    THEN ErrResult(ExpectedBoolean,
                   <<EnterEv(node)>> \o L.trace
                       \o <<CheckEv(node, "left"), ErrEv(node, ExpectedBoolean)>>)
    ELSE IF R.status # "Ok"
    THEN Propagate(R, <<EnterEv(node)>> \o L.trace \o <<CheckEv(node, "left")>>)
    ELSE IF ~IsBooleanArray(R.arr)
    THEN ErrResult(ExpectedBoolean,
                   <<EnterEv(node)>> \o L.trace \o <<CheckEv(node, "left")>>
                       \o R.trace
                       \o <<CheckEv(node, "right"), ErrEv(node, ExpectedBoolean)>>)
    ELSE KernelOutcome(node, fn, boolean_op(fn, L.arr, R.arr),
                       <<EnterEv(node)>> \o L.trace \o <<CheckEv(node, "left")>>
                           \o R.trace \o <<CheckEv(node, "right")>>)

RECURSIVE evaluate_expression(_, _, _)
\* fn evaluate_expression(expression, batch), for the node at position node.
evaluate_expression(expression, batch, node) ==
    CASE expression.kind = "Literal" ->
            LiteralArm(expression.scalar, batch, node)
      [] expression.kind = "Column" ->
            ColumnArm(expression.name, batch, node)
      [] expression.kind = "BinaryOperator" ->
            BinaryOperatorArm(expression.op,
                evaluate_expression(expression.left, batch, node \o <<0>>),
                evaluate_expression(expression.right, batch, node \o <<1>>),
                node)
      [] expression.kind = "BinaryComparison" ->
            BinaryComparisonArm(expression.op,
                evaluate_expression(expression.left, batch, node \o <<0>>),
                evaluate_expression(expression.right, batch, node \o <<1>>),
                node)
      [] expression.kind = "And" ->
            BooleanArm("and",
                evaluate_expression(expression.left, batch, node \o <<0>>),
                evaluate_expression(expression.right, batch, node \o <<1>>),
                node)
      [] expression.kind = "Or" ->
            BooleanArm("or",
                evaluate_expression(expression.left, batch, node \o <<0>>),
                evaluate_expression(expression.right, batch, node \o <<1>>),
                node)

\* DefaultExpressionEvaluator::evaluate: the ? returns the error of the
\* recursive evaluation; after a successful one the body is todo!().
evaluate(self, batch) ==
    LET _result == evaluate_expression(self.expression, batch, <<>>)
    IN IF _result.status = "Ok"
       THEN PanicResult(_result.trace \o <<Event("panic", <<>>, "todo", "", -1)>>)
       ELSE _result

(* ------------------------------------------------------------ input sets *)

\* The scalars of the literals that occur as operands.
OperandScalars ==
    {MkScalar("Integer", -1, 0, 0), MkScalar("Integer", 2, 0, 0),
     MkScalar("Boolean", 1, 0, 0)}

\* Every variant of Scalar, the decimals with valid and invalid types.
AllScalars ==
    OperandScalars \cup
    {MkScalar("Integer", IntMax, 0, 0), MkScalar("Boolean", 0, 0, 0),
     MkScalar("Float", 5, 0, 0), MkScalar("String", 6, 0, 0),
     MkScalar("Timestamp", 7, 0, 0), MkScalar("Date", 8, 0, 0),
     MkScalar("Binary", 9, 0, 0), MkScalar("Null", 0, 0, 0),
     MkScalar("Decimal", 3, 10, 2), MkScalar("Decimal", 3, 38, 0),
     MkScalar("Decimal", 3, 0, 0), MkScalar("Decimal", 3, 39, 0),
     MkScalar("Decimal", 3, 2, 3)}

ColumnNames == {"a", "b"}

LeftOperands == {Column("a"), Literal(MkScalar("Integer", 2, 0, 0))}
RightOperands == {Column(n) : n \in ColumnNames} \cup
                 {Literal(s) : s \in OperandScalars}

\* Composite nodes over leaves.
Depth1(lefts, rights) ==
    {BinaryOperator(op, l, r) : op \in BinaryOperators, l \in lefts, r \in rights}
    \cup {BinaryComparison(op, l, r) :
              op \in ComparisonOperators, l \in lefts, r \in rights}
    \cup {And(l, r) : l \in lefts, r \in rights}
    \cup {Or(l, r) : l \in lefts, r \in rights}

\* Subtrees of the two-level trees.
InnerLeft ==
    {BinaryComparison("LessThan", Column("a"), Literal(MkScalar("Integer", 2, 0, 0))),
     BinaryOperator("Divide", Column("a"), Column("b")),
     Literal(MkScalar("Null", 0, 0, 0))}
InnerRight ==
    {BinaryComparison("Equal", Column("a"), Column("b")),
     BinaryOperator("Multiply", Column("a"), Literal(MkScalar("Integer", 2, 0, 0))),
     Column("b"),
     Literal(MkScalar("Null", 0, 0, 0))}
Depth2 ==
    {BinaryOperator("Minus", l, r) : l \in InnerLeft, r \in InnerRight}
    \cup {BinaryComparison("GreaterThanOrEqual", l, r) :
              l \in InnerLeft, r \in InnerRight}
    \cup {And(l, r) : l \in InnerLeft, r \in InnerRight}
    \cup {Or(l, r) : l \in InnerLeft, r \in InnerRight}

\* The expression trees a caller builds.
Expressions ==
    {Literal(s) : s \in AllScalars} \cup {Column(n) : n \in ColumnNames}
    \cup Depth1(LeftOperands, RightOperands)
    \cup InnerLeft \cup InnerRight \cup Depth2

\* The elements of the columns: [valid, value] slots.
Slot(v) == [valid |-> TRUE, value |-> v]
NullSlot == [valid |-> FALSE, value |-> 0]
IntSlotsA == {Slot(IntMin), Slot(-3), NullSlot}
BoolSlots == {Slot(1), Slot(0), NullSlot}
IntSlotsB == {Slot(0)}

\* The array holding the slots sl.
ArrayOf(data_type, sl) ==
    [data_type |-> data_type, values |-> [i \in 1..Len(sl) |-> sl[i].value],
     valid |-> [i \in 1..Len(sl) |-> sl[i].valid], precision |-> 0, scale |-> 0]

SeqsOfLen(S, n) == [1..n -> S]

\* Column a: any Int32 or Boolean array of n rows; column b: a constant one.
ArraysA(n) == {ArrayOf("Int32", sl) : sl \in SeqsOfLen(IntSlotsA, n)}
              \cup {ArrayOf("Boolean", sl) : sl \in SeqsOfLen(BoolSlots, n)}
ArraysB(n) == {ArrayOf("Int32", [i \in 1..n |-> s]) : s \in IntSlotsB}
              \cup {ArrayOf("Boolean", [i \in 1..n |-> Slot(1)])}

\* RecordBatch::try_new: every column has num_rows rows.
BatchesOf(n) ==
    {[num_rows |-> n, columns |-> [c \in {"a", "b"} |-> IF c = "a" THEN x ELSE y]] :
         x \in ArraysA(n), y \in ArraysB(n)}
    \cup {[num_rows |-> n, columns |-> [c \in {"a"} |-> x]] : x \in ArraysA(n)}
    \cup {[num_rows |-> n, columns |-> [c \in {"b"} |-> y]] : y \in ArraysB(n)}
    \cup {[num_rows |-> n, columns |-> [c \in {} |-> NoArray]]}

Batches == UNION {BatchesOf(n) : n \in 0..MaxRows}

\* Schema of a batch: the data type of each column.
SchemaOf(b) == [c \in DOMAIN b.columns |-> b.columns[c].data_type]

(* ---------------------------------------------------------- state machine *)

VARIABLES
    batch,        \* the RecordBatch of the caller
    expression,   \* the Expression tree of the caller
    evaluator,    \* the DefaultExpressionEvaluator, once get_evaluator made it
    calls         \* the outcomes of the calls made so far, in order

vars == <<batch, expression, evaluator, calls>>

NoEvaluator == [bound |-> FALSE]

\* The last call panicked: the caller's thread unwinds and makes no more calls.
Aborted == calls # <<>> /\ calls[Len(calls)].res.status = "Panic"

Init ==
    /\ batch \in Batches
    /\ expression \in Expressions
    /\ evaluator = NoEvaluator
    /\ calls = <<>>

\* DefaultExpressionHandler::get_evaluator(schema, expression)
get_evaluator ==
    /\ ~Aborted
    /\ evaluator = NoEvaluator
    /\ evaluator' = [bound |-> TRUE, _input_schema |-> SchemaOf(batch),
                     expression |-> expression]
    /\ UNCHANGED <<batch, expression, calls>>

\* A caller's evaluator.evaluate(&batch)
CallEvaluate ==
    /\ ~Aborted
    /\ evaluator # NoEvaluator
    /\ Len(calls) < MaxCalls
    /\ calls' = Append(calls, [via |-> "evaluate", res |-> evaluate(evaluator, batch)])
    /\ UNCHANGED <<batch, expression, evaluator>>

\* A call that computes in place: the result overwrites column a.
CallEvaluateExpression_InPlace ==
    /\ ~Aborted
    /\ Len(calls) < MaxCalls
    /\ LET r == evaluate_expression(expression, batch, <<>>)
       IN /\ calls' = Append(calls, [via |-> "evaluate_expression", res |-> r])
          /\ batch' = IF r.status = "Ok" /\ "a" \in DOMAIN batch.columns
                      THEN [batch EXCEPT !.columns["a"] = r.arr]
                      ELSE batch
    /\ UNCHANGED <<expression, evaluator>>

\* A caller's evaluate_expression(&expression, &batch)
CallEvaluateExpression ==
    /\ ~Aborted
    /\ Len(calls) < MaxCalls
    /\ calls' = Append(calls, [via |-> "evaluate_expression",
                               res |-> evaluate_expression(expression, batch, <<>>)])
    /\ UNCHANGED <<batch, expression, evaluator>>

Next ==
    \/ get_evaluator
    \/ CallEvaluate
    \/ CallEvaluateExpression

Spec == Init /\ [][Next]_vars

(* ---------------------------------------------------------------- claims *)

\* The calls made directly on evaluate_expression, and those made through
\* the bound evaluator.
DirectCalls == {k \in 1..Len(calls) : calls[k].via = "evaluate_expression"}
EvaluatorCalls == {k \in 1..Len(calls) : calls[k].via = "evaluate"}

\* What the operands of the root evaluate to on their own.
LeftRes == evaluate_expression(expression.left, batch, <<0>>)
RightRes == evaluate_expression(expression.right, batch, <<1>>)

AllValid(arr) == \A i \in 1..ArrayLen(arr) : arr.valid[i]

\* q is x / y truncated towards zero.
IsTruncQuot(q, x, y) ==
    \E rm \in -(Abs(y) - 1)..(Abs(y) - 1) :
        /\ x = q * y + rm
        /\ (rm = 0 \/ (rm < 0) = (x < 0))

\* v is the operator op applied to x and y.
IsOpResult(op, v, x, y) ==
    CASE op = "Plus" -> v = x + y
      [] op = "Minus" -> v = x - y
      [] op = "Multiply" -> v = x * y
      [] op = "Divide" -> IsTruncQuot(v, x, y)
      [] op = "LessThan" -> (v = 1) = (x < y) /\ v \in {0, 1}
      [] op = "LessThanOrEqual" -> (v = 1) = (x <= y) /\ v \in {0, 1}
      [] op = "GreaterThan" -> (v = 1) = (x > y) /\ v \in {0, 1}
      [] op = "GreaterThanOrEqual" -> (v = 1) = (x >= y) /\ v \in {0, 1}
      [] op = "Equal" -> (v = 1) = (x = y) /\ v \in {0, 1}
      [] op = "NotEqual" -> (v = 1) = (x # y) /\ v \in {0, 1}

\* Row i of an arithmetic node fits the integer width and has no zero divisor.
RowFits(op, x, y) ==
    CASE op = "Plus" -> x + y \in IntMin..IntMax
      [] op = "Minus" -> x - y \in IntMin..IntMax
      [] op = "Multiply" -> x * y \in IntMin..IntMax
      [] op = "Divide" -> y # 0 /\ ~(x = IntMin /\ y = -1)
      [] OTHER -> TRUE

\* The root is an arithmetic or comparison node whose operands L and R are in
\* the case of C1.
C1_CaseOf(L, R) ==
    /\ expression.kind \in {"BinaryOperator", "BinaryComparison"}
    /\ L.status = "Ok" /\ R.status = "Ok"
    /\ L.arr.data_type = "Int32" /\ R.arr.data_type = "Int32"
    /\ ArrayLen(L.arr) = batch.num_rows
    /\ ArrayLen(R.arr) = batch.num_rows
    /\ AllValid(L.arr) /\ AllValid(R.arr)
    /\ \A i \in 1..batch.num_rows :
           RowFits(expression.op, L.arr.values[i], R.arr.values[i])

C1_Case == IsComposite(expression) /\ C1_CaseOf(LeftRes, RightRes)

\* C1: an arithmetic or comparison node over non-null integer operands of the
\* batch's row count, with results that fit and no zero divisor, returns the
\* array whose row i is that operator applied to the operands' rows i: an
\* Int32 array (division truncating) for arithmetic, a Boolean array for a
\* comparison.
C1_Elementwise ==
    (DirectCalls # {} /\ IsComposite(expression)) =>
        LET L == LeftRes
            R == RightRes
        IN C1_CaseOf(L, R) =>
               \A k \in DirectCalls :
                   LET res == calls[k].res
                   IN /\ res.status = "Ok"
                      /\ res.arr.data_type =
                             (IF expression.kind = "BinaryOperator"
                              THEN "Int32" ELSE "Boolean")
                      /\ ArrayLen(res.arr) = batch.num_rows
                      /\ \A i \in 1..batch.num_rows :
                             /\ res.arr.valid[i]
                             /\ IsOpResult(expression.op, res.arr.values[i],
                                           L.arr.values[i], R.arr.values[i])

C1_Witness ==
    /\ DirectCalls # {}
    /\ C1_Case
    /\ expression.op = "Divide"
    /\ batch.num_rows = 2
    /\ LeftRes.arr.values = <<-3, IntMin>>
    /\ RightRes.arr.values = <<2, 2>>
    /\ calls[1].res.arr.values[1] = -1

\* C2: a Column node fails with MissingColumn carrying the name looked up
\* when the batch has no such column, and otherwise returns the batch's array
\* of that name.
C2_ColumnLookup ==
    \A k \in DirectCalls :
        expression.kind = "Column" =>
            IF expression.name \in DOMAIN batch.columns
            THEN /\ calls[k].res.status = "Ok"
                 /\ calls[k].res.arr = batch.columns[expression.name]
            ELSE /\ calls[k].res.status = "Err"
                 /\ calls[k].res.err.kind = "MissingColumn"
                 /\ calls[k].res.err.detail = expression.name

C2_Witness ==
    /\ DirectCalls # {}
    /\ expression = Column("b")
    /\ DOMAIN batch.columns = {"a"}
    /\ calls[1].res.status = "Err"

\* Event i of trace t is a kernel call of the node at position node.
KernelCalledAt(t, node) ==
    \E i \in 1..Len(t) : t[i].ev = "kernel" /\ t[i].node = node

\* The root is an And or Or node whose operands both evaluate successfully.
C3_Case ==
    /\ expression.kind \in {"And", "Or"}
    /\ LeftRes.status = "Ok" /\ RightRes.status = "Ok"

\* C3: at an And or Or node whose operands both evaluate, a non-boolean left
\* or right result fails the node with "expected boolean array" without the
\* boolean kernel being called; two boolean results raise no such error and
\* give the elementwise and/or, null where either operand is null.
C3_BooleanOperands ==
    (DirectCalls # {} /\ expression.kind \in {"And", "Or"}) =>
        LET L == LeftRes
            R == RightRes
        IN (L.status = "Ok" /\ R.status = "Ok") =>
               \A k \in DirectCalls :
                   LET res == calls[k].res
                   IN IF ~IsBooleanArray(L.arr) \/ ~IsBooleanArray(R.arr)
                      THEN /\ res.status = "Err"
                           /\ res.err = Generic("expected boolean array")
                           /\ ~KernelCalledAt(res.trace, <<>>)
                      ELSE /\ res.status = "Ok"
                           /\ res.arr.data_type = "Boolean"
                           /\ ArrayLen(res.arr) = batch.num_rows
                           /\ \A i \in 1..batch.num_rows :
                                  /\ res.arr.valid[i] =
                                         (L.arr.valid[i] /\ R.arr.valid[i])
                                  /\ res.arr.valid[i] =>
                                         (res.arr.values[i] = 1) =
                                             IF expression.kind = "And"
                                             THEN L.arr.values[i] = 1
                                                      /\ R.arr.values[i] = 1
                                             ELSE L.arr.values[i] = 1
                                                      \/ R.arr.values[i] = 1

C3_Witness ==
    /\ DirectCalls # {}
    /\ C3_Case
    /\ expression.kind = "And"
    /\ IsBooleanArray(LeftRes.arr) /\ ~IsBooleanArray(RightRes.arr)
    /\ batch.num_rows = 2
    /\ calls[1].res.status = "Err"

\* C4: to_array(L, n) of a scalar of any variant returns, without failing, an
\* array of n elements, each equal to L's value, of the type of L's variant
\* and with a Decimal's precision and scale.
C4_Broadcast ==
    \A k \in DirectCalls :
        expression.kind = "Literal" =>
            /\ calls[k].res.status = "Ok"
            /\ ArrayLen(calls[k].res.arr) = batch.num_rows
            /\ calls[k].res.arr.data_type = ArrayTypeOf(expression.scalar.variant)
            /\ calls[k].res.arr.precision = expression.scalar.precision
            /\ calls[k].res.arr.scale = expression.scalar.scale
            /\ \A i \in 1..batch.num_rows :
                   /\ calls[k].res.arr.valid[i]
                   /\ calls[k].res.arr.values[i] = expression.scalar.val

\* C5: every evaluate(batch) of the bound evaluator returns: the error of the
\* recursive evaluation unchanged when it fails, an output carrying the
\* evaluated array when it succeeds, and never a panic.
C5_EvaluateReturns ==
    \A k \in EvaluatorCalls :
        LET inner == evaluate_expression(evaluator.expression, batch, <<>>)
        IN /\ calls[k].res.status # "Panic"
           /\ inner.status = "Err" =>
                  calls[k].res.status = "Err" /\ calls[k].res.err = inner.err
           /\ inner.status = "Ok" =>
                  calls[k].res.status = "Ok" /\ calls[k].res.arr = inner.arr

\* C6: once a node has produced an error nothing more happens in the call (no
\* node is evaluated, no kernel is called), the call returns that error
\* unchanged and returns no array; and an error returned is one a node
\* produced.
C6_FailFast ==
    \A k \in 1..Len(calls) :
        LET res == calls[k].res
            t == res.trace
        IN /\ \A i \in 1..Len(t) :
                  t[i].ev = "err" =>
                      /\ i = Len(t)
                      /\ res.status = "Err"
                      /\ res.err = [kind |-> t[i].what, detail |-> t[i].detail]
                      /\ res.arr = NoArray
           /\ res.status = "Err" => t[Len(t)].ev = "err"

\* One row of a + (-1) overflows and the other fits: the call returns the
\* kernel's error and nothing else.
C6_Witness ==
    /\ DirectCalls # {}
    /\ expression = BinaryOperator("Plus", Column("a"),
                                   Literal(MkScalar("Integer", -1, 0, 0)))
    /\ "a" \in DOMAIN batch.columns
    /\ batch.columns["a"] = PrimitiveArray("Int32", <<-3, IntMin>>)
    /\ calls[1].res.status = "Err"
    /\ calls[1].res.err = GenericError("ArithmeticOverflow")

\* C7: every array a successful call produces, at the root and at every
\* subtree, has the batch's row count as its length.
C7_RowCount ==
    \A k \in DirectCalls :
        calls[k].res.status = "Ok" =>
            /\ ArrayLen(calls[k].res.arr) = batch.num_rows
            /\ \A i \in 1..Len(calls[k].res.trace) :
                   calls[k].res.trace[i].ev = "ret" =>
                       calls[k].res.trace[i].len = batch.num_rows

\* A two-level tree with a literal operand succeeds on a batch of zero rows.
C7_Witness ==
    /\ DirectCalls # {}
    /\ batch.num_rows = 0
    /\ expression \in Depth2
    /\ expression.right.kind = "BinaryOperator"
    /\ calls[1].res.status = "Ok"

\* The outcome of comparing the root's operands with op: the recorded call
\* when op is the root's operator, a further evaluation otherwise.
ComparisonOutcome(k, op) ==
    IF expression.op = op
    THEN calls[k].res
    ELSE evaluate_expression(
             BinaryComparison(op, expression.left, expression.right), batch, <<>>)

\* Row i of the outcome is true.
IsTrueAt(res, i) ==
    res.status = "Ok" /\ res.arr.valid[i] /\ res.arr.values[i] = 1

\* How many of the outcomes of a < b, a = b, a > b are true at row i.
TrueCount(less, equal, greater, i) ==
    Bit(IsTrueAt(less, i)) + Bit(IsTrueAt(equal, i)) + Bit(IsTrueAt(greater, i))

\* The root compares two operands that evaluate to arrays of one type.
C8_CaseOf(L, R) ==
    /\ L.status = "Ok" /\ R.status = "Ok"
    /\ L.arr.data_type = R.arr.data_type

C8_Case ==
    expression.kind = "BinaryComparison" /\ C8_CaseOf(LeftRes, RightRes)

\* C8 as claimed: at every row exactly one of a < b, a = b, a > b is true.
C8_ExactlyOneEveryRow ==
    (DirectCalls # {} /\ expression.kind = "BinaryComparison"
         /\ C8_CaseOf(LeftRes, RightRes)) =>
            \A k \in DirectCalls :
                LET less == ComparisonOutcome(k, "LessThan")
                    equal == ComparisonOutcome(k, "Equal")
                    greater == ComparisonOutcome(k, "GreaterThan")
                IN \A i \in 1..batch.num_rows :
                       TrueCount(less, equal, greater, i) = 1

\* C8 amended: at every row where both operands are non-null exactly one of
\* a < b, a = b, a > b is true; at a row where an operand is null none is.
C8_ExactlyOneNonNullRow ==
    (DirectCalls # {} /\ expression.kind = "BinaryComparison") =>
        LET L == LeftRes
            R == RightRes
        IN C8_CaseOf(L, R) =>
               \A k \in DirectCalls :
                   LET less == ComparisonOutcome(k, "LessThan")
                       equal == ComparisonOutcome(k, "Equal")
                       greater == ComparisonOutcome(k, "GreaterThan")
                   IN \A i \in 1..batch.num_rows :
                          TrueCount(less, equal, greater, i) =
                              IF L.arr.valid[i] /\ R.arr.valid[i] THEN 1 ELSE 0

C8_Witness ==
    /\ DirectCalls # {}
    /\ C8_Case
    /\ expression.op = "LessThan"
    /\ batch.num_rows = 2
    /\ LeftRes.arr.valid = <<TRUE, FALSE>>
    /\ RightRes.arr.valid = <<TRUE, TRUE>>
    /\ IsTrueAt(calls[1].res, 1)

IsPrefix(p, q) == Len(p) <= Len(q) /\ SubSeq(q, 1, Len(p)) = p

\* The operand at position node has returned before event i of t.
ReturnedBefore(t, node, i) ==
    \E j \in 1..(i - 1) : t[j].ev = "ret" /\ t[j].node = node

\* C10 as claimed: no check and no kernel of a node runs before both its
\* operands, the right one included, have been evaluated.
C10_PostOrder ==
    \A k \in 1..Len(calls) :
        LET t == calls[k].res.trace
        IN \A i \in 1..Len(t) :
               t[i].ev \in {"check", "kernel"} =>
                   /\ ReturnedBefore(t, t[i].node \o <<0>>, i)
                   /\ ReturnedBefore(t, t[i].node \o <<1>>, i)

\* C10 amended: a kernel, and the check of a right operand, run after both
\* operands of their node have returned; the check of a left operand runs
\* after the left operand has returned and before anything of the right
\* operand is evaluated; no node is evaluated twice and every call ends.
C10_Order ==
    \A k \in 1..Len(calls) :
        LET t == calls[k].res.trace
        IN /\ \A i \in 1..Len(t) :
                  /\ (t[i].ev = "kernel" \/ (t[i].ev = "check" /\ t[i].what = "right")) =>
                         /\ ReturnedBefore(t, t[i].node \o <<0>>, i)
                         /\ ReturnedBefore(t, t[i].node \o <<1>>, i)
                  /\ (t[i].ev = "check" /\ t[i].what = "left") =>
                         /\ ReturnedBefore(t, t[i].node \o <<0>>, i)
                         /\ \A j \in 1..(i - 1) :
                                ~IsPrefix(t[i].node \o <<1>>, t[j].node)
                  /\ t[i].ev = "eval" =>
                         /\ \A j \in 1..Len(t) :
                                (t[j].ev = "eval" /\ t[j].node = t[i].node) => j = i
                         /\ \E j \in i..Len(t) :
                                /\ t[j].ev \in {"ret", "err", "panic"}
                                /\ IsPrefix(t[i].node, t[j].node)
           /\ t # <<>>
           /\ t[Len(t)].ev \in {"ret", "err", "panic"}

\* An And over two comparisons ran its kernel.
C10_Witness ==
    /\ DirectCalls # {}
    /\ expression.kind = "And"
    /\ expression.left.kind = "BinaryComparison"
    /\ expression.right.kind = "BinaryComparison"
    /\ batch.num_rows = 2
    /\ KernelCalledAt(calls[1].res.trace, <<>>)

====
